---- MODULE Spec2Model ----
(***************************************************************************)
(* The streaming ITCH decoder of src/lib.rs: the nom field codecs, the     *)
(* per-tag record grammar, the 200-byte self-compacting window of          *)
(* MessageStream and the Iterator::next driver, as a state machine.        *)
(*                                                                         *)
(* Bytes are integers 0..255.  A parser takes the input slice i and the    *)
(* number of bytes pos already consumed from it, and returns               *)
(*   [t |-> "Done", pos |-> bytes consumed so far, v |-> value]            *)
(*   [t |-> "Incomplete" | "Error" | "Panic", ...]                         *)
(* so that rest.len() of the source is Len(i) - pos.                       *)
(***************************************************************************)
EXTENDS Integers, Sequences, FiniteSets, TLC

\* src/lib.rs:20
BUFSIZE == 200

\* src/lib.rs:79, the "extra careful check" margin of fetch_more_bytes
REMNANT_LIMIT == 50

\* src/lib.rs:220, "tag + header = 11"
TAG_AND_HEADER == 11

\* u16 arithmetic of `length - 11` (src/lib.rs:208, 220)
U16_MODULUS == 65536

----------------------------------------------------------------------------
(* ASCII codes of the character literals the grammar names. *)
Ord(c) ==
    CASE c = " " -> 32 [] c = "0" -> 48 [] c = "1" -> 49 [] c = "2" -> 50
      [] c = "A" -> 65 [] c = "B" -> 66 [] c = "C" -> 67 [] c = "D" -> 68
      [] c = "E" -> 69 [] c = "G" -> 71 [] c = "H" -> 72 [] c = "J" -> 74
      [] c = "K" -> 75 [] c = "L" -> 76 [] c = "M" -> 77 [] c = "N" -> 78
      [] c = "O" -> 79 [] c = "P" -> 80 [] c = "Q" -> 81 [] c = "R" -> 82
      [] c = "S" -> 83 [] c = "T" -> 84 [] c = "U" -> 85 [] c = "W" -> 87
      [] c = "Y" -> 89 [] c = "Z" -> 90

Done(pos, v) == [t |-> "Done", pos |-> pos, v |-> v]
Incomplete(pos) == [t |-> "Incomplete", pos |-> pos, v |-> <<>>]
Error(pos) == [t |-> "Error", pos |-> pos, v |-> <<>>]
Panic(pos) == [t |-> "Panic", pos |-> pos, v |-> <<>>]

(* Big-endian value of the bytes i[from+1 .. from+w]. *)
RECURSIVE BigEndian(_, _, _)
BigEndian(i, from, w) ==
    IF w = 0 THEN 0
    ELSE BigEndian(i, from, w - 1) * 256 + i[from + w]

(* nom's be_u8, be_u16, be_u32, be_u64 and the crate's own be_u48: *)
(* Incomplete when fewer than w bytes remain.                       *)
be_uint(i, pos, w) ==
    IF Len(i) - pos < w THEN Incomplete(pos)
    ELSE Done(pos + w, BigEndian(i, pos, w))

be_u48(i, pos) ==
    IF Len(i) - pos < 6 THEN Incomplete(pos)
    ELSE Done(pos + 6, BigEndian(i, pos, 6))

(* nom's take!(cnt). *)
take(i, pos, cnt) ==
    IF Len(i) - pos < cnt THEN Incomplete(pos)
    ELSE Done(pos + cnt, SubSeq(i, pos + 1, pos + cnt))

(* std::str::from_utf8 on the bytes s[k..]: TRUE iff well-formed UTF-8. *)
IsCont(b) == b >= 128 /\ b <= 191

RECURSIVE IsUtf8(_, _)
IsUtf8(s, k) ==
    IF k > Len(s) THEN TRUE
    ELSE LET b == s[k]
             has(n) == k + n <= Len(s)
         IN  IF b < 128 THEN IsUtf8(s, k + 1)
             ELSE IF b >= 194 /\ b <= 223
                  THEN has(1) /\ IsCont(s[k + 1]) /\ IsUtf8(s, k + 2)
             ELSE IF b >= 224 /\ b <= 239
                  THEN /\ has(2)
                       /\ IsCont(s[k + 1]) /\ IsCont(s[k + 2])
                       /\ (b = 224 => s[k + 1] >= 160)
                       /\ (b = 237 => s[k + 1] <= 159)
                       /\ IsUtf8(s, k + 3)
             ELSE IF b >= 240 /\ b <= 244
                  THEN /\ has(3)
                       /\ IsCont(s[k + 1]) /\ IsCont(s[k + 2]) /\ IsCont(s[k + 3])
                       /\ (b = 240 => s[k + 1] >= 144)
                       /\ (b = 244 => s[k + 1] <= 143)
                       /\ IsUtf8(s, k + 4)
             ELSE FALSE

(* nom's take_str!(n) followed by ArrayString::from(s).unwrap(): the text *)
(* is kept as its n bytes.                                                 *)
take_str(i, pos, n) ==
    LET r == take(i, pos, n)
    IN  IF r.t # "Done" THEN r
        ELSE IF IsUtf8(r.v, 1) THEN r ELSE Error(pos)

(* alt!( char!(c1) => v1 | char!(c2) => v2 | ... ) with tbl = c1 :> v1 @@ ... *)
(* char! is Incomplete on empty input; alt! passes Incomplete through and    *)
(* is an Error when no alternative matches.                                  *)
alt_char(i, pos, tbl) ==
    IF Len(i) - pos < 1 THEN Incomplete(pos)
    ELSE IF i[pos + 1] \in DOMAIN tbl THEN Done(pos + 1, tbl[i[pos + 1]])
    ELSE Error(pos)

(* value!(val, take!(n)) *)
value_take(i, pos, val, n) ==
    LET r == take(i, pos, n)
    IN  IF r.t # "Done" THEN r ELSE Done(r.pos, val)

char2bool == (Ord("Y") :> TRUE) @@ (Ord("N") :> FALSE)

(* Option<bool>: Some(b) is <<b>>, None is <<>>. *)
maybe_char2bool ==
    (Ord("Y") :> <<TRUE>>) @@ (Ord("N") :> <<FALSE>>) @@ (Ord(" ") :> <<>>)

(* One step of a do_parse! chain.  A field is <<name, kind, argument...>>; *)
(* the name "_" is a parser whose result is not bound.                     *)
Field(i, pos, f) ==
    CASE f[2] = "be" -> be_uint(i, pos, f[3])
      [] f[2] = "be_u48" -> be_u48(i, pos)
      [] f[2] = "take_str" -> take_str(i, pos, f[3])
      [] f[2] = "alt" -> alt_char(i, pos, f[3])
      [] f[2] = "value" -> value_take(i, pos, f[3], f[4])

(* do_parse!(f1 >> f2 >> ... >> (record)): the fields in order, the first *)
(* one that is not Done decides; acc collects the bound names.             *)
RECURSIVE do_parse(_, _, _, _, _)
do_parse(i, pos, fields, k, acc) ==
    IF k > Len(fields) THEN Done(pos, acc)
    ELSE LET f == fields[k]
             r == Field(i, pos, f)
         IN  IF r.t # "Done" THEN r
             ELSE do_parse(i, r.pos, fields, k + 1,
                           IF f[1] = "_" THEN acc ELSE (f[1] :> r.v) @@ acc)

Variant(name) == "variant" :> name

----------------------------------------------------------------------------
(* The record grammar.  Each parser is the field list of its do_parse!.    *)

parse_message_header(i, pos) ==
    do_parse(i, pos,
        << <<"stock_locate", "be", 2>>,
           <<"tracking_number", "be", 2>>,
           <<"timestamp", "be_u48">> >>,
        1, <<>>)

parse_system_event(i, pos) ==
    do_parse(i, pos,
        << <<"event", "alt",
             (Ord("O") :> "StartOfMessages") @@
             (Ord("S") :> "StartOfSystemHours") @@
             (Ord("Q") :> "StartOfMarketHours") @@
             (Ord("M") :> "EndOfMarketHours") @@
             (Ord("E") :> "EndOfSystemHours") @@
             (Ord("C") :> "EndOfMessages")>> >>,
        1, Variant("SystemEvent"))

(* The issue_classification and issue_subtype bytes are taken and replaced *)
(* by fixed values (the FIXME of src/lib.rs:286-288).                      *)
parse_stock_directory(i, pos) ==
    do_parse(i, pos,
        << <<"stock", "take_str", 8>>,
           <<"market_category", "alt",
             (Ord("Q") :> "NasdaqGlobalSelect") @@
             (Ord("G") :> "NasdaqGlobalMarket") @@
             (Ord("S") :> "NasdaqCaptialMarket") @@
             (Ord("N") :> "Nyse") @@
             (Ord("A") :> "NyseMkt") @@
             (Ord("P") :> "NyseArca") @@
             (Ord("Z") :> "BatsZExchange") @@
             (Ord(" ") :> "Unavailable")>>,
           <<"financial_status", "alt",
             (Ord("N") :> "Normal") @@
             (Ord("D") :> "Deficient") @@
             (Ord("E") :> "Delinquent") @@
             (Ord("Q") :> "Bankrupt") @@
             (Ord("S") :> "Suspended") @@
             (Ord("G") :> "DeficientBankrupt") @@
             (Ord("H") :> "DeficientDelinquent") @@
             (Ord("J") :> "DelinquentBankrupt") @@
             (Ord("K") :> "DeficientDelinquentBankrupt") @@
             (Ord("C") :> "EtpSuspended") @@
             (Ord(" ") :> "Unavailable")>>,
           <<"round_lot_size", "be", 4>>,
           <<"round_lots_only", "alt", char2bool>>,
           <<"issue_classification", "value", "Unit", 1>>,
           <<"issue_subtype", "value", "AlphaIndexETNs", 2>>,
           <<"authenticity", "alt", (Ord("P") :> TRUE) @@ (Ord("T") :> FALSE)>>,
           <<"short_sale_threshold", "alt", maybe_char2bool>>,
           <<"ipo_flag", "alt", maybe_char2bool>>,
           <<"luld_ref_price_tier", "alt",
             (Ord(" ") :> "Na") @@ (Ord("1") :> "Tier1") @@ (Ord("2") :> "Tier2")>>,
           <<"etp_flag", "alt", maybe_char2bool>>,
           <<"etp_leverage_factor", "be", 4>>,
           <<"inverse_indicator", "alt", char2bool>> >>,
        1, Variant("StockDirectory"))

parse_participant_position(i, pos) ==
    do_parse(i, pos,
        << <<"mpid", "take_str", 4>>,
           <<"stock", "take_str", 8>>,
           <<"primary_market_maker", "alt", char2bool>>,
           <<"market_maker_mode", "alt",
             (Ord("N") :> "Normal") @@
             (Ord("P") :> "Passive") @@
             (Ord("S") :> "Syndicate") @@
             (Ord("R") :> "Presyndicate") @@
             (Ord("L") :> "Penalty")>>,
           <<"market_participant_state", "alt",
             (Ord("A") :> "Active") @@
             (Ord("E") :> "Excused") @@
             (Ord("W") :> "Withdrawn") @@
             (Ord("S") :> "Suspended") @@
             (Ord("D") :> "Deleted")>> >>,
        1, Variant("ParticipantPosition"))

parse_reg_sho_restriction(i, pos) ==
    do_parse(i, pos,
        << <<"stock", "take_str", 8>>,
           <<"action", "alt",
             (Ord("0") :> "None") @@
             (Ord("1") :> "Intraday") @@
             (Ord("2") :> "Extant")>> >>,
        1, Variant("RegShoRestriction"))

parse_trading_action(i, pos) ==
    do_parse(i, pos,
        << <<"stock", "take_str", 8>>,
           <<"trading_state", "alt",
             (Ord("H") :> "Halted") @@
             (Ord("P") :> "Paused") @@
             (Ord("Q") :> "QuotationOnly") @@
             (Ord("T") :> "Trading")>>,
           <<"_", "be", 1>>,
           <<"reason", "take_str", 4>> >>,
        1, Variant("TradingAction"))

parse_add_order(i, pos) ==
    do_parse(i, pos,
        << <<"reference", "be", 8>>,
           <<"side", "alt", (Ord("B") :> "Buy") @@ (Ord("S") :> "Sell")>>,
           <<"shares", "be", 4>>,
           <<"stock", "take_str", 8>>,
           <<"price", "be", 4>> >>,
        1, Variant("AddOrder"))

parse_replace_order(i, pos) ==
    do_parse(i, pos,
        << <<"old_reference", "be", 8>>,
           <<"new_reference", "be", 8>>,
           <<"shares", "be", 4>>,
           <<"price", "be", 4>> >>,
        1, Variant("ReplaceOrder"))

parse_delete_order(i, pos) ==
    do_parse(i, pos, << <<"reference", "be", 8>> >>, 1, Variant("DeleteOrder"))

(* unknown_count with the tag left out of the count: length - 10. *)
unknown_count_header_only(length) == (length - (TAG_AND_HEADER - 1)) % U16_MODULUS

(* `length - 11` on u16: with overflow checks (a debug build) a length    *)
(* under 11 panics, without them (a release build) it wraps modulo 2^16.  *)
unknown_count(length) == (length - TAG_AND_HEADER) % U16_MODULUS

(* The `other =>` arm of the switch!. *)
parse_unknown(i, pos, length, tag, checks) ==
    IF checks /\ length < TAG_AND_HEADER THEN Panic(pos)
    ELSE LET r == take(i, pos, unknown_count(length))
         IN  IF r.t # "Done" THEN r
             ELSE Done(r.pos, [variant |-> "Unknown", length |-> length,
                               tag |-> tag, content |-> r.v])

KnownTags == {Ord("S"), Ord("R"), Ord("L"), Ord("Y"), Ord("H"), Ord("A"), Ord("U"), Ord("D")}

(* switch!(value!(tag), ...) *)
parse_body(i, pos, length, tag, checks) ==
    CASE tag = Ord("S") -> parse_system_event(i, pos)
      [] tag = Ord("R") -> parse_stock_directory(i, pos)
      [] tag = Ord("L") -> parse_participant_position(i, pos)
      [] tag = Ord("Y") -> parse_reg_sho_restriction(i, pos)
      [] tag = Ord("H") -> parse_trading_action(i, pos)
      [] tag = Ord("A") -> parse_add_order(i, pos)
      [] tag = Ord("U") -> parse_replace_order(i, pos)
      [] tag = Ord("D") -> parse_delete_order(i, pos)
      [] OTHER -> parse_unknown(i, pos, length, tag, checks)

(* parse_message on the slice i; checks is the build's overflow checking. *)
parse_message(i, checks) ==
    LET pre == do_parse(i, 0, << <<"length", "be", 2>>, <<"tag", "be", 1>> >>, 1, <<>>)
    IN  IF pre.t # "Done" THEN pre
        ELSE LET hdr == parse_message_header(i, pre.pos)
             IN  IF hdr.t # "Done" THEN hdr
                 ELSE LET body == parse_body(i, hdr.pos, pre.v.length, pre.v.tag, checks)
                      IN  IF body.t # "Done" THEN body
                          ELSE Done(body.pos, [header |-> hdr.v, body |-> body.v])

----------------------------------------------------------------------------
(* Input streams.  Wire frames are written byte by byte, as the tests of  *)
(* src/lib.rs write theirs (hex_to_bytes), from the wire layout            *)
(* [u16 length][u8 tag][u16 locate][u16 tracking][u48 timestamp][body].    *)
(* Numeric fields stay below 2^31, the range of TLC's integers.            *)

U16(n) == <<n \div 256, n % 256>>
U32(n) == <<0, (n \div 65536) % 256, (n \div 256) % 256, n % 256>>
U48(n) == <<0, 0>> \o U32(n)
U64(n) == <<0, 0, 0, 0>> \o U32(n)

Wire(length, tag, locate, tracking, timestamp, body) ==
    U16(length) \o <<tag>> \o U16(locate) \o U16(tracking) \o U48(timestamp) \o body

Hdr(locate, tracking, timestamp) ==
    [stock_locate |-> locate, tracking_number |-> tracking, timestamp |-> timestamp]

TxtZXZZT == <<90, 88, 90, 90, 84, 32, 32, 32>>
TxtA == <<65, 32, 32, 32, 32, 32, 32, 32>>
TxtBBRY == <<66, 66, 82, 89, 32, 32, 32, 32>>
TxtADAM == <<65, 68, 65, 77>>
TxtT1 == <<84, 49, 32, 32>>
Payload(n) == [k \in 1..n |-> k]

(* The stock directory body of tests::stock_directory (src/lib.rs:440-441), *)
(* with the issue classification byte c and issue subtype bytes s1 s2.      *)
StockDirectoryBody(c, s1, s2) ==
    TxtA \o <<78, 32>> \o U32(100) \o <<78, c, s1, s2, 80, 78, 32, 49, 78>> \o U32(0) \o <<78>>

Frames ==
    [ S0   |-> Wire(11, 83, 1, 2, 42, <<79>>),
      S    |-> Wire(12, 83, 1, 10, 1000, <<81>>),
      R    |-> Wire(39, 82, 2, 11, 1001, StockDirectoryBody(67, 90, 32)),
      R2   |-> Wire(39, 82, 2, 11, 1001, StockDirectoryBody(65, 65, 32)),
      L    |-> Wire(26, 76, 3, 12, 1002, TxtADAM \o TxtBBRY \o <<89, 78, 65>>),
      Y    |-> Wire(20, 89, 4, 13, 1003, TxtZXZZT \o <<49>>),
      H    |-> Wire(25, 72, 5, 14, 1004, TxtZXZZT \o <<84, 0>> \o TxtT1),
      A    |-> Wire(36, 65, 6, 15, 70000, U64(1412) \o <<66>> \o U32(100) \o TxtZXZZT \o U32(10000)),
      U    |-> Wire(35, 85, 7, 16, 70001, U64(1412) \o U64(1413) \o U32(200) \o U32(10100)),
      D    |-> Wire(19, 68, 8, 17, 70002, U64(1413)),
      X0   |-> Wire(11, 88, 9, 18, 70003, <<>>),
      X3   |-> Wire(14, 88, 9, 19, 70004, <<1, 2, 3>>),
      I    |-> Wire(50, 73, 9, 20, 70005, Payload(39)),
      J    |-> Wire(48, 74, 9, 23, 70008, Payload(37)),
      K    |-> Wire(49, 75, 9, 24, 70009, Payload(38)),
      W    |-> SubSeq(Wire(9, 88, 1, 2, 0, <<>>), 1, 11),
      Sbad |-> Wire(12, 83, 1, 21, 70006, <<90>>),
      Abad |-> Wire(36, 65, 6, 22, 70007, U64(1) \o <<66>> \o U32(1) \o <<90, 255, 90, 90, 84, 32, 32, 32>> \o U32(1)) ]

(* What each well-formed frame says, field by field. *)
Expected ==
    [ S0 |-> [header |-> Hdr(1, 2, 42),
              body |-> [variant |-> "SystemEvent", event |-> "StartOfMessages"]],
      S  |-> [header |-> Hdr(1, 10, 1000),
              body |-> [variant |-> "SystemEvent", event |-> "StartOfMarketHours"]],
      L  |-> [header |-> Hdr(3, 12, 1002),
              body |-> [variant |-> "ParticipantPosition", mpid |-> TxtADAM, stock |-> TxtBBRY,
                        primary_market_maker |-> TRUE, market_maker_mode |-> "Normal",
                        market_participant_state |-> "Active"]],
      Y  |-> [header |-> Hdr(4, 13, 1003),
              body |-> [variant |-> "RegShoRestriction", stock |-> TxtZXZZT, action |-> "Intraday"]],
      H  |-> [header |-> Hdr(5, 14, 1004),
              body |-> [variant |-> "TradingAction", stock |-> TxtZXZZT,
                        trading_state |-> "Trading", reason |-> TxtT1]],
      A  |-> [header |-> Hdr(6, 15, 70000),
              body |-> [variant |-> "AddOrder", reference |-> 1412, side |-> "Buy",
                        shares |-> 100, stock |-> TxtZXZZT, price |-> 10000]],
      U  |-> [header |-> Hdr(7, 16, 70001),
              body |-> [variant |-> "ReplaceOrder", old_reference |-> 1412,
                        new_reference |-> 1413, shares |-> 200, price |-> 10100]],
      D  |-> [header |-> Hdr(8, 17, 70002),
              body |-> [variant |-> "DeleteOrder", reference |-> 1413]],
      X0 |-> [header |-> Hdr(9, 18, 70003),
              body |-> [variant |-> "Unknown", length |-> 11, tag |-> 88, content |-> <<>>]],
      X3 |-> [header |-> Hdr(9, 19, 70004),
              body |-> [variant |-> "Unknown", length |-> 14, tag |-> 88, content |-> <<1, 2, 3>>]],
      I  |-> [header |-> Hdr(9, 20, 70005),
              body |-> [variant |-> "Unknown", length |-> 50, tag |-> 73, content |-> Payload(39)]],
      J  |-> [header |-> Hdr(9, 23, 70008),
              body |-> [variant |-> "Unknown", length |-> 48, tag |-> 74, content |-> Payload(37)]],
      K  |-> [header |-> Hdr(9, 24, 70009),
              body |-> [variant |-> "Unknown", length |-> 49, tag |-> 75, content |-> Payload(38)]] ]

(* A stock directory record without the two fields the FIXME replaces. *)
ExpectedStockDirectory ==
    [variant |-> "StockDirectory", stock |-> TxtA, market_category |-> "Nyse",
     financial_status |-> "Unavailable", round_lot_size |-> 100, round_lots_only |-> FALSE,
     authenticity |-> TRUE, short_sale_threshold |-> <<FALSE>>, ipo_flag |-> <<>>,
     luld_ref_price_tier |-> "Tier1", etp_flag |-> <<FALSE>>, etp_leverage_factor |-> 0,
     inverse_indicator |-> FALSE]

Streams ==
    << <<"S0">>,
       <<"S", "R", "L", "Y", "H", "A", "U", "D", "X3", "R2", "X0", "S", "A", "Y">>,
       <<"R", "R2">>,
       <<"R", "R", "R", "H", "K", "S">>,
       <<"S", "R", "A", "U", "D", "J", "S">>,
       <<"S", "I", "X3">>,
       <<"W", "S">>,
       <<"S", "W", "S", "R", "L", "Y", "H", "A", "U", "D">>,
       <<"S", "Sbad", "S">>,
       <<"A", "Abad", "D">> >>

RECURSIVE Concat(_, _)
Concat(keys, k) ==
    IF k > Len(keys) THEN <<>> ELSE Frames[keys[k]] \o Concat(keys, k + 1)

StreamBytes == [s \in DOMAIN Streams |-> Concat(Streams[s], 1)]

(* Offset in stream s of the end of its frame number k (0 for k = 0). *)
FrameEnd == [s \in DOMAIN Streams |->
                [k \in 0..Len(Streams[s]) |-> Len(Concat(SubSeq(Streams[s], 1, k), 1))]]

----------------------------------------------------------------------------
(* MessageStream<R> and its reader.                                        *)
(*                                                                         *)
(* reader: the byte source R.  It holds the first len bytes of stream src  *)
(* (len below the stream's length is a source that ends early), has        *)
(* delivered pos of them in reads calls, returns at most chunk bytes per   *)
(* read, is made of two pieces joined at offset cut (0: one piece) so that *)
(* no read crosses cut, as with io::Chain, and returns an io::Error from   *)
(* its read number fail (0: from none).                                    *)
(* pc: where control is.  "idle": with the consumer, between next() calls; *)
(* "next": at the top of next() (line 96), from the consumer or from the   *)
(* self.next() of line 116; "fetch": at line 111, the parse having been    *)
(* Incomplete; "read": at line 88, after the compaction block;             *)
(* "panicked": the thread has panicked, abort holds the message.           *)
(* out: what next() has returned so far, in order.                         *)

VARIABLES reader, buffer, bufstart, bufend, bytes_read, read_calls, messages,
          overflow_checks, pc, abort, out

vars == <<reader, buffer, bufstart, bufend, bytes_read, read_calls, messages,
          overflow_checks, pc, abort, out>>

\* How many failures the consumer sits through before it stops pulling.
MaxErrs == 2

Min(S) == CHOOSE x \in S : \A y \in S : x <= y

Ok(msg) == [kind |-> "Ok", val |-> msg]
Err(e) == [kind |-> "Err", val |-> e]

Failures(o) == Cardinality({k \in DOMAIN o : o[k].kind = "Err"})

(* &self.buffer[self.bufstart..self.bufend] *)
Window == SubSeq(buffer, bufstart + 1, bufend)

(* Read::read of the source into a slice of room bytes: the count. *)
ReadCount(r, room) ==
    Min({room, r.chunk, IF r.pos < r.cut THEN r.cut - r.pos ELSE r.len - r.pos})

SmallChunks == {1, 7}
FailingReads == {1, 2}

(* The readers considered over stream s: the stream whole and cut in two *)
(* at every offset, the stream ended early at every offset, the stream   *)
(* whole through a source of small reads, and the stream whole through a *)
(* source one of whose reads fails.                                      *)
Readers(s) ==
    LET n == Len(StreamBytes[s])
        R(len, cut, chunk, fail) ==
            [src |-> s, len |-> len, pos |-> 0, reads |-> 0,
             cut |-> cut, chunk |-> chunk, fail |-> fail]
    IN  {R(n, c, BUFSIZE, 0) : c \in 0..(n - 1)}
          \cup {R(m, 0, BUFSIZE, 0) : m \in 0..(n - 1)}
          \cup {R(n, 0, k, 0) : k \in SmallChunks}
          \cup {R(n, 0, BUFSIZE, f) : f \in FailingReads}

(* MessageStream::new (lines 60-70) over each reader considered, in a     *)
(* build with or without overflow checks.                                 *)
Init ==
    /\ reader \in UNION {Readers(s) : s \in DOMAIN Streams}
    /\ buffer = [k \in 1..BUFSIZE |-> 0]
    /\ bufstart = 0
    /\ bufend = 0
    /\ bytes_read = 0
    /\ read_calls = 0
    /\ messages = 0
    /\ overflow_checks \in BOOLEAN
    /\ pc = "idle"
    /\ abort = ""
    /\ out = <<>>

(* The consumer calls next(). *)
Pull ==
    /\ pc = "idle"
    /\ Failures(out) < MaxErrs
    /\ pc' = "next"
    /\ UNCHANGED <<reader, buffer, bufstart, bufend, bytes_read, read_calls, messages,
                   overflow_checks, abort, out>>

(* NextWindowStart that resynchronises on an Error: skips the frame by its *)
(* declared length.                                                        *)
NextWindowStartResync(r) ==
    IF r.t = "Done" THEN bufend - (Len(Window) - r.pos)
    ELSE IF r.t = "Error" THEN bufstart + 2 + (buffer[bufstart + 1] * 256 + buffer[bufstart + 2])
    ELSE bufstart

(* NextWindowStart that keeps the bytes an Incomplete parse went through. *)
NextWindowStartPartial(r) ==
    IF r.t = "Done" THEN bufend - (Len(Window) - r.pos)
    ELSE IF r.t = "Incomplete" THEN bufstart + r.pos
    ELSE bufstart

(* self.bufstart after the match of lines 99-109 on the parse result r:  *)
(* Done sets it to bufend - rest.len(), the other arms leave it.         *)
NextWindowStart(r) ==
    IF r.t = "Done" THEN bufend - (Len(Window) - r.pos) ELSE bufstart

(* next(), lines 96-110: one parse of the window. *)
Parse ==
    /\ pc = "next"
    /\ LET r == parse_message(Window, overflow_checks)
       IN  /\ bufstart' = NextWindowStart(r)
           /\ CASE r.t = "Done" ->
                    /\ messages' = messages + 1
                    /\ out' = Append(out, Ok(r.v))
                    /\ pc' = "idle"
                    /\ abort' = abort
               [] r.t = "Error" ->
                    /\ out' = Append(out, Err("Parse failed"))
                    /\ pc' = "idle"
                    /\ UNCHANGED <<messages, abort>>
               [] r.t = "Incomplete" ->
                    /\ pc' = "fetch"
                    /\ UNCHANGED <<messages, abort, out>>
               [] r.t = "Panic" ->
                    /\ pc' = "panicked"
                    /\ abort' = "attempt to subtract with overflow"
                    /\ UNCHANGED <<messages, out>>
    /\ UNCHANGED <<reader, buffer, bufend, bytes_read, read_calls, overflow_checks>>

(* extra_careful_check with <= for <. *)
extra_careful_check_inclusive(start) == BUFSIZE - start <= REMNANT_LIMIT

(* The two asserts of lines 78 and 79. *)
safety_check(start) == start > BUFSIZE \div 2

extra_careful_check(start) == BUFSIZE - start < REMNANT_LIMIT

(* Compacted without the copy: the window is reset, the remnants stay put. *)
CompactedNoCopy(buf, start) == buf

(* Compacted copying from one byte too early. *)
CompactedOffByOne(buf, start) ==
    [k \in 1..BUFSIZE |-> IF k <= BUFSIZE - start THEN buf[start + k - 1] ELSE buf[k]]

(* The copy of lines 81-82: right = buffer[bufstart..] onto left[..right.len()]. *)
Compacted(buf, start) ==
    [k \in 1..BUFSIZE |-> IF k <= BUFSIZE - start THEN buf[start + k] ELSE buf[k]]

(* fetch_more_bytes, lines 73-87: the count, the two asserts, the compaction. *)
FetchMoreBytes ==
    /\ pc = "fetch"
    /\ read_calls' = read_calls + 1
    /\ IF bufend = BUFSIZE
       THEN IF ~safety_check(bufstart)
            THEN /\ pc' = "panicked"
                 /\ abort' = "assertion failed: self.bufstart as usize > BUFSIZE / 2"
                 /\ UNCHANGED <<buffer, bufstart, bufend>>
            ELSE IF ~extra_careful_check(bufstart)
            THEN /\ pc' = "panicked"
                 /\ abort' = "assertion failed: BUFSIZE - self.bufstart < 50"
                 /\ UNCHANGED <<buffer, bufstart, bufend>>
            ELSE /\ buffer' = Compacted(buffer, bufstart)
                 /\ bufstart' = 0
                 /\ bufend' = BUFSIZE - bufstart
                 /\ pc' = "read"
                 /\ abort' = abort
       ELSE /\ pc' = "read"
            /\ UNCHANGED <<buffer, bufstart, bufend, abort>>
    /\ UNCHANGED <<reader, bytes_read, messages, overflow_checks, out>>

(* self.reader.read(&mut self.buffer[self.bufend..]) of line 88 with its *)
(* `?`, and the match of lines 111-119 on the result.                    *)
Read ==
    /\ pc = "read"
    /\ IF reader.reads + 1 = reader.fail
       THEN /\ reader' = [reader EXCEPT !.reads = @ + 1]
            /\ out' = Append(out, Err("Io"))
            /\ pc' = "idle"
            /\ UNCHANGED <<buffer, bufend, bytes_read>>
       ELSE LET ct == ReadCount(reader, BUFSIZE - bufend)
                data == StreamBytes[reader.src]
            IN  /\ reader' = [reader EXCEPT !.pos = @ + ct, !.reads = @ + 1]
                /\ buffer' = [k \in 1..BUFSIZE |->
                                IF k > bufend /\ k <= bufend + ct
                                THEN data[reader.pos + (k - bufend)] ELSE buffer[k]]
                /\ IF ct = 0
                   THEN /\ out' = Append(out, Err("Unexpected EOF"))
                        /\ pc' = "idle"
                        /\ UNCHANGED <<bufend, bytes_read>>
                   ELSE /\ bufend' = bufend + ct
                        /\ bytes_read' = bytes_read + ct
                        /\ pc' = "next"
                        /\ out' = out
    /\ UNCHANGED <<bufstart, read_calls, messages, overflow_checks, abort>>

Next == Pull \/ Parse \/ FetchMoreBytes \/ Read

Spec == Init /\ [][Next]_vars

----------------------------------------------------------------------------
(* Vocabulary of the properties. *)

Keys == Streams[reader.src]
Whole == reader.len = Len(StreamBytes[reader.src])
Sound == reader.fail = 0
KnownKeys == {"S0", "S", "R", "R2", "L", "Y", "H", "A", "U", "D"}
WellFormedKeys == KnownKeys \cup {"X0", "X3", "I", "J", "K"}
ValidStream == \A k \in DOMAIN Keys : Keys[k] \in WellFormedKeys
KnownOnly == \A k \in DOMAIN Keys : Keys[k] \in KnownKeys
FramesFit == \A k \in DOMAIN Keys : Len(Frames[Keys[k]]) <= REMNANT_LIMIT
Boundaries == {FrameEnd[reader.src][k] : k \in 0..Len(Keys)}
Truncated == reader.len \notin Boundaries
CompleteFrames == Cardinality({k \in 1..Len(Keys) : FrameEnd[reader.src][k] <= reader.len})

(* The record of a frame decoded on its own, all of its bytes at hand. *)
OneShot(key) == parse_message(Frames[key], overflow_checks).v

IsOk(e) == e.kind = "Ok"
IsErr(e, what) == e.kind = "Err" /\ e.val = what
Last(o) == o[Len(o)]
IsPrefix(p, q) == Len(p) <= Len(q) /\ SubSeq(q, 1, Len(p)) = p

(* The first bytes of the window, read straight from the buffer. *)
WinByte(k) == buffer[bufstart + k]
HeadLength == WinByte(1) * 256 + WinByte(2)
HeadTag == WinByte(3)

(* Every frame of the stream comes out, in order, as the record of that    *)
(* frame, before any failure, and the decoder does not abort.              *)
Delivered ==
    /\ pc # "panicked"
    /\ messages <= Len(Keys)
    /\ messages <= Len(out)
    /\ \A k \in DOMAIN out :
         IF k <= messages
         THEN IsOk(out[k]) /\ out[k].val = OneShot(Keys[k])
         ELSE ~IsOk(out[k]) /\ messages = Len(Keys)

----------------------------------------------------------------------------
(* C1 (as amended).  For every stream of well-formed frames none longer    *)
(* than 50 bytes, however the source splits it into reads (in two at any   *)
(* offset, in small chunks), next() yields the record of each frame, in    *)
(* stream order, the same as when every read is served in full, and no     *)
(* failure comes before the last frame's record.                           *)
C1_ChunkingTransparency == (ValidStream /\ FramesFit /\ Whole /\ Sound) => Delivered

(* C1 as claimed: the same of every stream of well-formed frames. *)
C1_AnyValidStream == (ValidStream /\ Whole /\ Sound) => Delivered

C1_Witness ==
    /\ ValidStream /\ FramesFit /\ Whole /\ Sound
    /\ reader.cut \notin Boundaries
    /\ bytes_read > BUFSIZE
    /\ messages = Len(Keys)
    /\ pc = "idle"

(* C2.  A stream of complete well-formed frames with known tags yields    *)
(* only Ok records, none of them Unknown, and no failure at any position:  *)
(* the end of the source on a frame boundary is not a failure.             *)
C2_CleanEnd ==
    (KnownOnly /\ Whole /\ Sound) =>
        \A k \in DOMAIN out : IsOk(out[k]) /\ out[k].val.body.variant # "Unknown"

(* C3.  For k complete frames followed by a proper non-empty prefix of a  *)
(* frame, next() yields the k records, then one "unexpected end" failure,  *)
(* and nothing after it.                                                   *)
C3_TruncatedOnce ==
    (ValidStream /\ FramesFit /\ Sound /\ Truncated) =>
        /\ Len(out) <= CompleteFrames + 1
        /\ \A k \in DOMAIN out :
             IF k <= CompleteFrames
             THEN IsOk(out[k]) /\ out[k].val = OneShot(Keys[k])
             ELSE IsErr(out[k], "Unexpected EOF")

(* C4.  A next() that yields a parse failure leaves bufstart, bufend and  *)
(* messages as they were, and once a parse failure has been yielded no     *)
(* later next() yields an Ok record.                                       *)
C4_DecodeErrorTerminal ==
    [][ /\ (out' # out /\ IsErr(Last(out'), "Parse failed")) =>
              (bufstart' = bufstart /\ bufend' = bufend /\ messages' = messages)
        /\ ((\E k \in DOMAIN out : IsErr(out[k], "Parse failed")) /\ out' # out) =>
              ~IsOk(Last(out')) ]_vars

C4_Witness ==
    /\ Len(out) >= 3
    /\ IsOk(out[1])
    /\ IsErr(out[Len(out) - 1], "Parse failed")
    /\ IsErr(Last(out), "Parse failed")

(* C5.  A refill asked for with the window at capacity and 50 bytes or    *)
(* more unconsumed panics: the buffer, the window and the reader are       *)
(* untouched and nothing is yielded; no step compacts such a remainder,    *)
(* and nothing follows the panic.                                          *)
C5_CapacityFailureFatal ==
    [][ /\ (pc = "fetch" /\ bufend = BUFSIZE /\ bufstart <= BUFSIZE - REMNANT_LIMIT) =>
              /\ pc' = "panicked"
              /\ buffer' = buffer /\ bufstart' = bufstart /\ bufend' = bufend
              /\ reader' = reader /\ out' = out
        /\ (pc = "fetch" /\ buffer' # buffer) => BUFSIZE - bufstart < REMNANT_LIMIT
        /\ pc # "panicked" ]_vars

C5_Witness ==
    /\ pc = "panicked"
    /\ bufend = BUFSIZE
    /\ bufstart <= BUFSIZE - REMNANT_LIMIT
    /\ bufstart > BUFSIZE \div 2
    /\ ValidStream

(* C6.  When the window starts with a whole frame whose tag is not a      *)
(* known one and whose declared length L is at least 11, the parse yields  *)
(* the frame's header with Unknown{L, tag, the L - 11 bytes after the      *)
(* header} and moves the window start by 2 + L.                            *)
C6_UnknownFallback ==
    [][ ( /\ pc = "next"
          /\ bufend - bufstart >= 3
          /\ HeadTag \notin KnownTags
          /\ HeadLength >= 11
          /\ bufend - bufstart >= 2 + HeadLength ) =>
        /\ out' = Append(out, Ok(
             [header |-> [stock_locate |-> WinByte(4) * 256 + WinByte(5),
                          tracking_number |-> WinByte(6) * 256 + WinByte(7),
                          timestamp |-> ((((WinByte(8) * 256 + WinByte(9)) * 256 + WinByte(10)) * 256
                                           + WinByte(11)) * 256 + WinByte(12)) * 256 + WinByte(13)],
              body |-> [variant |-> "Unknown", length |-> HeadLength, tag |-> HeadTag,
                        content |-> SubSeq(buffer, bufstart + 14, bufstart + 2 + HeadLength)]]))
        /\ bufstart' = bufstart + 2 + HeadLength ]_vars

C6_Witness ==
    \E k \in DOMAIN out :
        /\ IsOk(out[k])
        /\ out[k].val.body.variant = "Unknown"
        /\ Len(out[k].val.body.content) = out[k].val.body.length - 11
        /\ Len(out[k].val.body.content) > 0
        /\ k < Len(out)
        /\ IsOk(out[k + 1])

(* C7.  Each record yielded for a frame with a supported tag has that     *)
(* tag's variant and the field values the frame's bytes encode, and two    *)
(* stock directory frames that differ in their issue classification and    *)
(* issue subtype bytes give records that differ in those fields.           *)
C7_FieldsEqualInput ==
    (ValidStream /\ Sound) =>
        \A k \in 1..messages :
            LET m == out[k].val
            IN  IF Keys[k] \in {"R", "R2"}
                THEN /\ [f \in DOMAIN ExpectedStockDirectory |-> m.body[f]]
                          = ExpectedStockDirectory
                     /\ \A j \in 1..messages :
                          (Keys[j] \in {"R", "R2"} /\ Keys[j] # Keys[k]) =>
                              /\ out[j].val.body.issue_classification
                                   # m.body.issue_classification
                              /\ out[j].val.body.issue_subtype # m.body.issue_subtype
                ELSE m = Expected[Keys[k]]

(* C8.  A parse that is Incomplete changes nothing but the control point: *)
(* window, buffer, counter and output are as before; the refill keeps the  *)
(* window's bytes and only adds after them; each next() returns one Ok or  *)
(* Err, and an Ok record is the record of one whole frame, whose bytes are *)
(* exactly those the window start moves over.                              *)
C8_IncompleteAtomic ==
    [][ /\ (pc = "next" /\ pc' = "fetch") =>
              /\ bufstart' = bufstart /\ bufend' = bufend /\ buffer' = buffer
              /\ messages' = messages /\ out' = out
        /\ (pc \in {"fetch", "read"}) =>
              /\ messages' = messages
              /\ IsPrefix(Window, Window')
              /\ (out' # out => ~IsOk(Last(out')))
        /\ (out' # out) =>
              /\ Len(out') = Len(out) + 1
              /\ SubSeq(out', 1, Len(out)) = out
              /\ Last(out').kind \in {"Ok", "Err"}
              /\ pc' = "idle"
        /\ (out' # out /\ IsOk(Last(out')) /\ ValidStream) =>
              /\ messages' = messages + 1
              /\ Last(out').val = OneShot(Keys[messages'])
              /\ SubSeq(Window, 1, bufstart' - bufstart) = Frames[Keys[messages']] ]_vars

C8_Witness ==
    /\ pc = "idle"
    /\ ValidStream
    /\ reader.cut > 0
    /\ reader.cut < FrameEnd[reader.src][1]
    /\ read_calls >= 2
    /\ messages = 1
    /\ IsOk(out[1])

(* C9.  0 <= bufstart <= bufend <= 200 and buffer[bufstart..bufend) is    *)
(* the bytes received from the source and not consumed by a yielded        *)
(* record, in order; the window start moves back only in a compaction,     *)
(* which happens only at bufend = 200, sets bufstart to 0 and bufend to    *)
(* the remainder's length and keeps the remainder; a fetch below capacity  *)
(* moves nothing; a read appends its bytes right after the window.         *)
C9_Inv ==
    /\ 0 <= bufstart /\ bufstart <= bufend /\ bufend <= BUFSIZE
    /\ bytes_read = reader.pos
    /\ bytes_read - (bufend - bufstart) = FrameEnd[reader.src][messages]
    /\ Window = SubSeq(StreamBytes[reader.src],
                       FrameEnd[reader.src][messages] + 1, bytes_read)

C9_Act ==
    /\ (bufstart' < bufstart) =>
          /\ pc = "fetch" /\ bufend = BUFSIZE
          /\ bufstart' = 0 /\ bufend' = BUFSIZE - bufstart
          /\ Window' = Window
    /\ (pc = "fetch" /\ bufend < BUFSIZE) =>
          (buffer' = buffer /\ bufstart' = bufstart /\ bufend' = bufend)
    /\ (pc = "fetch" /\ bufend = BUFSIZE /\ pc' = "read") =>
          (bufstart' = 0 /\ bufend' = BUFSIZE - bufstart /\ Window' = Window)
    /\ (pc = "read") =>
          /\ bufstart' = bufstart
          /\ Window' = Window \o SubSeq(StreamBytes[reader.src], reader.pos + 1, reader'.pos)

C9_WindowRepresentation == []C9_Inv /\ [][C9_Act]_vars

C9_Witness ==
    /\ pc = "next"
    /\ bytes_read > BUFSIZE
    /\ bufstart = 0
    /\ bufend > 0
    /\ messages > 0

(* C10.  With the whole header of a frame at hand whose tag is not a      *)
(* known one and whose declared length is under 11, next() does not panic  *)
(* on `length - 11` and does not go for more bytes to fill a wrapped       *)
(* payload size.                                                           *)
C10_NoUnderflow ==
    ( /\ bufend - bufstart >= 13
      /\ HeadTag \notin KnownTags
      /\ HeadLength < TAG_AND_HEADER ) =>
        /\ pc # "panicked"
        /\ pc \notin {"fetch", "read"}

====
